---------------------------- MODULE Spec2Model ----------------------------
(***************************************************************************)
(* A model of dxtbx/model/beam.h: the monochromatic Beam, the              *)
(* PolychromaticBeam derived from it, their setters and getters, strict    *)
(* equality and the similarity overloads.                                  *)
(*                                                                         *)
(* Numbers.  A double is modelled as an exact rational <<n, d>> in lowest  *)
(* terms with d > 0, extended with the three IEEE-754 specials the code    *)
(* can produce: <<1, 0>> is +Inf, <<-1, 0>> is -Inf and <<0, 0>> is NaN    *)
(* (0/0, Inf - Inf).  Every comparison with a NaN is false, as in C++.     *)
(* Rounding is not modelled: the inputs are chosen so that every square    *)
(* root taken is rational, and an input outside that domain stops TLC.     *)
(***************************************************************************)
EXTENDS Integers, Sequences, FiniteSets, TLC

VARIABLES beam, other, pre, last

vars == <<beam, other, pre, last>>

---------------------------------------------------------------------------
(* double arithmetic                                                       *)

IAbs(i) == IF i < 0 THEN -i ELSE i

ISgn(i) == IF i < 0 THEN -1 ELSE IF i > 0 THEN 1 ELSE 0

RECURSIVE Gcd(_, _)
Gcd(m, n) == IF n = 0 THEN m ELSE Gcd(n, m % n)

\* The double n/d: lowest terms, positive denominator; x/0 is +-Inf or NaN.
Rat(n, d) ==
    IF d = 0 THEN <<ISgn(n), 0>>
    ELSE LET g == Gcd(IAbs(n), IAbs(d))
             s == ISgn(d)
         IN  <<(s * n) \div g, (s * d) \div g>>

Int2R(i) == <<i, 1>>

Zero == Int2R(0)

One == Int2R(1)

NaN == <<0, 0>>

IsNaN(x) == x = NaN

IsInf(x) == x[2] = 0 /\ x[1] # 0

IsFinite(x) == x[2] > 0

RNeg(x) == <<-x[1], x[2]>>

\* The least common denominator of two finite doubles.
Lcd(x, y) == (x[2] \div Gcd(x[2], y[2])) * y[2]

RAdd(x, y) ==
    IF IsInf(x) /\ IsInf(y) THEN (IF x = y THEN x ELSE NaN)
    ELSE IF IsFinite(x) /\ IsFinite(y)
    THEN LET l == Lcd(x, y)
         IN  Rat(x[1] * (l \div x[2]) + y[1] * (l \div y[2]), l)
    ELSE Rat(x[1] * y[2] + y[1] * x[2], 0)

RSub(x, y) == RAdd(x, RNeg(y))

RMul(x, y) == Rat(x[1] * y[1], x[2] * y[2])

\* 1/x: 1/0 is +Inf, 1/Inf is 0, 1/NaN is NaN.
RInv(x) == Rat(x[2], x[1])

RDiv(x, y) == RMul(x, RInv(y))

\* x < y; false when either is a NaN.
RLt(x, y) ==
    /\ ~IsNaN(x)
    /\ ~IsNaN(y)
    /\ IF x[2] = 0 /\ y[2] = 0 THEN x[1] < y[1]
       ELSE IF x[2] = 0 THEN x[1] < 0
       ELSE IF y[2] = 0 THEN y[1] > 0
       ELSE LET l == Lcd(x, y)
            IN  x[1] * (l \div x[2]) < y[1] * (l \div y[2])

RGt(x, y) == RLt(y, x)

\* x <= y; false when either is a NaN.
RLe(x, y) == ~IsNaN(x) /\ ~IsNaN(y) /\ ~RLt(y, x)

\* std::abs
RAbs(x) == <<IAbs(x[1]), x[2]>>

\* The integer square root of a perfect square; no value otherwise.
ISqrt(n) == CHOOSE k \in 0..n : k * k = n

\* std::sqrt on the doubles whose root is rational.
RSqrt(x) ==
    IF IsNaN(x) \/ x[1] < 0 THEN NaN
    ELSE IF IsInf(x) THEN x
    ELSE <<ISqrt(x[1]), ISqrt(x[2])>>

---------------------------------------------------------------------------
(* scitbx::vec3<double>, as beam.h uses it                                 *)

Vec(x, y, z) == <<Int2R(x), Int2R(y), Int2R(z)>>

NaNVec == <<NaN, NaN, NaN>>

VNeg(v) == <<RNeg(v[1]), RNeg(v[2]), RNeg(v[3])>>

VAdd(u, v) == <<RAdd(u[1], v[1]), RAdd(u[2], v[2]), RAdd(u[3], v[3])>>

VScale(v, s) == <<RMul(v[1], s), RMul(v[2], s), RMul(v[3], s)>>

VDivS(v, s) == <<RDiv(v[1], s), RDiv(v[2], s), RDiv(v[3], s)>>

VDot(u, v) == RAdd(RAdd(RMul(u[1], v[1]), RMul(u[2], v[2])), RMul(u[3], v[3]))

VCross(u, v) ==
    <<RSub(RMul(u[2], v[3]), RMul(u[3], v[2])),
      RSub(RMul(u[3], v[1]), RMul(u[1], v[3])),
      RSub(RMul(u[1], v[2]), RMul(u[2], v[1]))>>

\* vec3::length
VLength(v) == RSqrt(VDot(v, v))

\* vec3::normalize: (*this) / length(), unchecked, so the zero vector
\* normalizes to (NaN, NaN, NaN).
VNormalize(v) == VDivS(v, VLength(v))

\* An angle of q quarter turns (q * pi/2 radians): the angles whose sine and
\* cosine are exact.
CosQ(q) == Int2R(<<1, 0, -1, 0>>[(q % 4) + 1])

SinQ(q) == Int2R(<<0, 1, 0, -1>>[(q % 4) + 1])

\* vec3::rotate_around_origin(axis, angle): the axis is normalized,
\* unchecked, and the vector is turned about it (Rodrigues' formula).
VRotate(v, axis, q) ==
    LET k == VNormalize(axis)
        c == CosQ(q)
        s == SinQ(q)
    IN  VAdd(VAdd(VScale(v, c),
                  VScale(k, RMul(VDot(k, v), RSub(One, c)))),
             VScale(VCross(k, v), s))

---------------------------------------------------------------------------
(* angle_safe (model_helpers.h)                                            *)

\* acos(k/25) in microradians, k = 0..25.
ACosTable ==
    <<1570796, 1530786, 1490711, 1450506, 1410106, 1369438, 1328430,
      1287002, 1245067, 1202528, 1159279, 1115198, 1070142, 1023945,
      976411, 927295, 876298, 823034, 766994, 707483, 643501, 573513,
      494934, 402716, 283794, 0>>

\* std::acos to a microradian, on the cosines k/25 the modelled vectors
\* have; acos(NaN) is NaN.
ACos(c) ==
    IF IsNaN(c) THEN NaN
    ELSE LET k == CHOOSE j \in -25..25 : j * c[2] = 25 * c[1]
         IN  IF k >= 0 THEN Rat(ACosTable[k + 1], 1000000)
             ELSE Rat(3141593 - ACosTable[1 - k], 1000000)

\* The dot product clamped to [-1, 1]; a NaN passes both comparisons.
Clamp(c) == IF RGt(c, One) THEN One ELSE IF RLt(c, RNeg(One)) THEN RNeg(One) ELSE c

\* The angle between two vectors: both normalized, the dot product clamped,
\* then the inverse cosine.
angle_safe(a, b) == ACos(Clamp(VDot(VNormalize(a), VNormalize(b))))

---------------------------------------------------------------------------
(* enum Probe                                                              *)

xray == 1

electron == 2

neutron == 3

Probes == {xray, electron, neutron}

---------------------------------------------------------------------------
(* Outcomes of a call                                                      *)

\* No exception.
NoExc == "none"

\* DXTBX_ASSERT(cond) with cond false.
AssertFailed == "DXTBX_ASSERT"

\* DXTBX_ERROR("PolychromaticBeam has no fixed wavelength")
NoFixedWavelength == "PolychromaticBeam has no fixed wavelength"

\* DXTBX_ERROR("PolychromaticBeam has no fixed s0")
NoFixedS0 == "PolychromaticBeam has no fixed s0"

\* What a void call returns, and what a call that threw returns.
NoValue == "void"

\* The call returned r and left the beam as bm.
Ok(bm, r) == [beam |-> bm, exc |-> NoExc, ret |-> r]

\* The call threw e with the beam as bm.
Throw(bm, e) == [beam |-> bm, exc |-> e, ret |-> NoValue]

\* The variable of a constructor call that threw: no object.
NoBeam == [kind |-> "none"]

---------------------------------------------------------------------------
(* class Beam                                                              *)

\* The data members of a Beam; s0_at_scan_points_ starts empty.
BeamRec(dir, wl, div, sd, pn, pf, fl, tr, pr, dist) ==
    [kind |-> "Beam",
     wavelength |-> wl,
     direction |-> dir,
     divergence |-> div,
     sigma_divergence |-> sd,
     polarization_normal |-> pn,
     polarization_fraction |-> pf,
     flux |-> fl,
     transmission |-> tr,
     probe |-> pr,
     sample_to_source_distance |-> dist,
     s0_at_scan_points |-> <<>>]

\* Beam()
Beam_0 ==
    Ok(BeamRec(Vec(0, 0, 1), Zero, Zero, Zero, Vec(0, 1, 0), Rat(999, 1000),
               Zero, One, xray, Zero), NoValue)

\* Beam(s0, divergence, sigma_divergence)
Beam_3(s0, div, sd) ==
    IF ~RGt(VLength(s0), Zero) THEN Throw(NoBeam, AssertFailed)
    ELSE Ok(BeamRec(VNeg(VNormalize(s0)), RDiv(One, VLength(s0)), div, sd,
                    Vec(0, 1, 0), Rat(999, 1000), Zero, One, xray, Zero),
            NoValue)

\* Beam(s0)
Beam_1(s0) ==
    IF ~RGt(VLength(s0), Zero) THEN Throw(NoBeam, AssertFailed)
    ELSE Ok(BeamRec(VNeg(VNormalize(s0)), RDiv(One, VLength(s0)), Zero, Zero,
                    Vec(0, 1, 0), Rat(999, 1000), Zero, One, xray, Zero),
            NoValue)

\* Beam(direction, wavelength, divergence, sigma_divergence,
\*      polarization_normal, polarization_fraction, flux, transmission,
\*      probe, sample_to_source_distance)
Beam_10(dir, wl, div, sd, pn, pf, fl, tr, pr, dist) ==
    IF ~RGt(VLength(dir), Zero) THEN Throw(NoBeam, AssertFailed)
    ELSE Ok(BeamRec(VNormalize(dir), wl, div, sd, pn, pf, fl, tr, pr, dist),
            NoValue)

\* Beam(direction, wavelength, divergence, sigma_divergence,
\*      polarization_normal, polarization_fraction, flux, transmission, probe)
Beam_9(dir, wl, div, sd, pn, pf, fl, tr, pr) ==
    IF ~RGt(VLength(dir), Zero) THEN Throw(NoBeam, AssertFailed)
    ELSE Ok(BeamRec(VNormalize(dir), wl, div, sd, pn, pf, fl, tr, pr, Zero),
            NoValue)

\* Beam(direction, wavelength, divergence, sigma_divergence)
Beam_4(dir, wl, div, sd) ==
    IF ~RGt(VLength(dir), Zero) THEN Throw(NoBeam, AssertFailed)
    ELSE Ok(BeamRec(VNormalize(dir), wl, div, sd, Vec(0, 1, 0),
                    Rat(999, 1000), Zero, One, xray, Zero), NoValue)

\* Beam(direction, wavelength)
Beam_2(dir, wl) ==
    IF ~RGt(VLength(dir), Zero) THEN Throw(NoBeam, AssertFailed)
    ELSE Ok(BeamRec(VNormalize(dir), wl, Zero, Zero, Vec(0, 1, 0),
                    Rat(999, 1000), Zero, One, xray, Zero), NoValue)

get_sample_to_source_direction(bm) == Ok(bm, bm.direction)

Beam_get_wavelength(bm) == Ok(bm, bm.wavelength)

get_divergence(bm) == Ok(bm, bm.divergence)

get_sigma_divergence(bm) == Ok(bm, bm.sigma_divergence)

\* set_direction without the normalisation: the vector is stored as given.
set_direction_as_given(bm, direction) ==
    IF ~RGt(VLength(direction), Zero) THEN Throw(bm, AssertFailed)
    ELSE Ok([bm EXCEPT !.direction = direction], NoValue)

set_direction(bm, direction) ==
    IF ~RGt(VLength(direction), Zero) THEN Throw(bm, AssertFailed)
    ELSE Ok([bm EXCEPT !.direction = VNormalize(direction)], NoValue)

Beam_set_wavelength(bm, wavelength) ==
    Ok([bm EXCEPT !.wavelength = wavelength], NoValue)

Beam_get_s0(bm) ==
    IF bm.wavelength = Zero THEN Throw(bm, AssertFailed)
    ELSE Ok(bm, VDivS(VScale(VNeg(bm.direction), One), bm.wavelength))

\* set_s0 with its check after the store of the direction.
Beam_set_s0_checked_late(bm, s0) ==
    IF ~RGt(VLength(s0), Zero)
    THEN Throw([bm EXCEPT !.direction = VNeg(VNormalize(s0))], AssertFailed)
    ELSE Ok([bm EXCEPT !.direction = VNeg(VNormalize(s0)),
                       !.wavelength = RDiv(One, VLength(s0))], NoValue)

\* set_s0 without the wavelength update.
Beam_set_s0_keeps_wavelength(bm, s0) ==
    IF ~RGt(VLength(s0), Zero) THEN Throw(bm, AssertFailed)
    ELSE Ok([bm EXCEPT !.direction = VNeg(VNormalize(s0))], NoValue)

\* set_s0 without the change of sign between s0 and the direction.
Beam_set_s0_not_negated(bm, s0) ==
    IF ~RGt(VLength(s0), Zero) THEN Throw(bm, AssertFailed)
    ELSE Ok([bm EXCEPT !.direction = VNormalize(s0),
                       !.wavelength = RDiv(One, VLength(s0))], NoValue)

Beam_set_s0(bm, s0) ==
    IF ~RGt(VLength(s0), Zero) THEN Throw(bm, AssertFailed)
    ELSE Ok([bm EXCEPT !.direction = VNeg(VNormalize(s0)),
                       !.wavelength = RDiv(One, VLength(s0))], NoValue)

get_unit_s0(bm) == Ok(bm, VNeg(bm.direction))

\* set_unit_s0 that takes the wavelength from the vector as set_s0 does.
set_unit_s0_sets_wavelength(bm, unit_s0) ==
    IF ~RGt(VLength(unit_s0), Zero) THEN Throw(bm, AssertFailed)
    ELSE Ok([bm EXCEPT !.direction = VNeg(VNormalize(unit_s0)),
                       !.wavelength = RDiv(One, VLength(unit_s0))], NoValue)

set_unit_s0(bm, unit_s0) ==
    IF ~RGt(VLength(unit_s0), Zero) THEN Throw(bm, AssertFailed)
    ELSE Ok([bm EXCEPT !.direction = VNeg(VNormalize(unit_s0))], NoValue)

set_divergence(bm, divergence) ==
    Ok([bm EXCEPT !.divergence = divergence], NoValue)

set_sigma_divergence(bm, sigma_divergence) ==
    Ok([bm EXCEPT !.sigma_divergence = sigma_divergence], NoValue)

get_polarization_normal(bm) == Ok(bm, bm.polarization_normal)

get_polarization_fraction(bm) == Ok(bm, bm.polarization_fraction)

set_polarization_normal(bm, polarization_normal) ==
    Ok([bm EXCEPT !.polarization_normal = polarization_normal], NoValue)

set_polarization_fraction(bm, polarization_fraction) ==
    Ok([bm EXCEPT !.polarization_fraction = polarization_fraction], NoValue)

set_flux(bm, flux) == Ok([bm EXCEPT !.flux = flux], NoValue)

set_transmission(bm, transmission) ==
    Ok([bm EXCEPT !.transmission = transmission], NoValue)

get_flux(bm) == Ok(bm, bm.flux)

get_transmission(bm) == Ok(bm, bm.transmission)

Beam_get_num_scan_points(bm) == Ok(bm, Len(bm.s0_at_scan_points))

\* set_s0_at_scan_points that appends to the stored sequence.
Beam_set_s0_at_scan_points_appending(bm, s0) ==
    Ok([bm EXCEPT !.s0_at_scan_points = bm.s0_at_scan_points \o s0], NoValue)

Beam_set_s0_at_scan_points(bm, s0) ==
    Ok([bm EXCEPT !.s0_at_scan_points = s0], NoValue)

Beam_get_s0_at_scan_points(bm) == Ok(bm, bm.s0_at_scan_points)

\* index is a std::size_t, counted from 0.
Beam_get_s0_at_scan_point(bm, index) ==
    IF ~(index < Len(bm.s0_at_scan_points)) THEN Throw(bm, AssertFailed)
    ELSE Ok(bm, bm.s0_at_scan_points[index + 1])

get_probe(bm) == Ok(bm, bm.probe)

set_probe(bm, probe) == Ok([bm EXCEPT !.probe = probe], NoValue)

Beam_reset_scan_points(bm) ==
    Ok([bm EXCEPT !.s0_at_scan_points = <<>>], NoValue)

get_sample_to_source_distance(bm) == Ok(bm, bm.sample_to_source_distance)

set_sample_to_source_distance(bm, sample_to_source_distance) ==
    IF ~RLe(Zero, sample_to_source_distance) THEN Throw(bm, AssertFailed)
    ELSE Ok([bm EXCEPT !.sample_to_source_distance =
                           sample_to_source_distance], NoValue)

\* rotate_around_origin that turns the direction and leaves the polarization
\* normal as it was.
rotate_direction_only(bm, axis, q) ==
    Ok([bm EXCEPT !.direction = VRotate(bm.direction, axis, q)], NoValue)

\* The angle is q quarter turns.
rotate_around_origin(bm, axis, q) ==
    Ok([bm EXCEPT !.direction = VRotate(bm.direction, axis, q),
                  !.polarization_normal =
                      VRotate(bm.polarization_normal, axis, q)], NoValue)

---------------------------------------------------------------------------
(* class PolychromaticBeam : public Beam                                   *)

\* The Beam() base subobject every PolychromaticBeam constructor starts from.
PolyBase == [Beam_0.beam EXCEPT !.kind = "PolychromaticBeam"]

\* DXTBX_ASSERT(direction.length() > 0); direction_ = direction.normalize();
PolyDirection(bm, direction) ==
    IF ~RGt(VLength(direction), Zero) THEN Throw(bm, AssertFailed)
    ELSE Ok([bm EXCEPT !.direction = VNormalize(direction)], NoValue)

\* A statement of a constructor body: a setter call, or the inline check
\* and store of the direction ("direction_").
Stmt(f, v) == [f |-> f, v |-> v]

Exec(bm, s) ==
    CASE s.f = "direction_" -> PolyDirection(bm, s.v)
      [] s.f = "set_direction" -> set_direction(bm, s.v)
      [] s.f = "set_divergence" -> set_divergence(bm, s.v)
      [] s.f = "set_sigma_divergence" -> set_sigma_divergence(bm, s.v)
      [] s.f = "set_polarization_normal" -> set_polarization_normal(bm, s.v)
      [] s.f = "set_polarization_fraction" ->
             set_polarization_fraction(bm, s.v)
      [] s.f = "set_flux" -> set_flux(bm, s.v)
      [] s.f = "set_transmission" -> set_transmission(bm, s.v)
      [] s.f = "set_probe" -> set_probe(bm, s.v)
      [] s.f = "set_sample_to_source_distance" ->
             set_sample_to_source_distance(bm, s.v)

\* The statements of a body in sequence, up to the first that throws.
RECURSIVE Body(_, _)
Body(bm, stmts) ==
    IF stmts = <<>> THEN Ok(bm, NoValue)
    ELSE LET r == Exec(bm, Head(stmts))
         IN  IF r.exc # NoExc THEN r ELSE Body(r.beam, Tail(stmts))

\* A constructor body that threw leaves no object.
Constructed(r) == IF r.exc # NoExc THEN Throw(NoBeam, r.exc) ELSE r

\* PolychromaticBeam()
PolychromaticBeam_0 ==
    Constructed(Body(PolyBase,
        <<Stmt("set_direction", Vec(0, 0, 1)),
          Stmt("set_divergence", Zero),
          Stmt("set_sigma_divergence", Zero),
          Stmt("set_polarization_normal", Vec(0, 1, 0)),
          Stmt("set_polarization_fraction", Rat(1, 2)),
          Stmt("set_flux", Zero),
          Stmt("set_transmission", One),
          Stmt("set_probe", xray),
          Stmt("set_sample_to_source_distance", Zero)>>))

\* PolychromaticBeam(direction)
PolychromaticBeam_1(direction) ==
    Constructed(Body(PolyBase,
        <<Stmt("direction_", direction),
          Stmt("set_divergence", Zero),
          Stmt("set_sigma_divergence", Zero),
          Stmt("set_polarization_normal", Vec(0, 1, 0)),
          Stmt("set_polarization_fraction", Rat(1, 2)),
          Stmt("set_flux", Zero),
          Stmt("set_transmission", One),
          Stmt("set_probe", xray),
          Stmt("set_sample_to_source_distance", Zero)>>))

\* PolychromaticBeam(direction, sample_to_source_distance)
PolychromaticBeam_2(direction, dist) ==
    Constructed(Body(PolyBase,
        <<Stmt("direction_", direction),
          Stmt("set_sample_to_source_distance", dist),
          Stmt("set_divergence", Zero),
          Stmt("set_sigma_divergence", Zero),
          Stmt("set_polarization_normal", Vec(0, 1, 0)),
          Stmt("set_polarization_fraction", Rat(999, 1000)),
          Stmt("set_flux", Zero),
          Stmt("set_transmission", One),
          Stmt("set_probe", xray)>>))

\* PolychromaticBeam(direction, divergence, sigma_divergence)
PolychromaticBeam_3(direction, div, sd) ==
    Constructed(Body(PolyBase,
        <<Stmt("direction_", direction),
          Stmt("set_divergence", div),
          Stmt("set_sigma_divergence", sd),
          Stmt("set_polarization_normal", Vec(0, 1, 0)),
          Stmt("set_polarization_fraction", Rat(1, 2)),
          Stmt("set_flux", Zero),
          Stmt("set_transmission", One),
          Stmt("set_probe", xray),
          Stmt("set_sample_to_source_distance", Zero)>>))

\* PolychromaticBeam(direction, divergence, sigma_divergence,
\*     polarization_normal, polarization_fraction, flux, transmission, probe)
PolychromaticBeam_8(direction, div, sd, pn, pf, fl, tr, pr) ==
    Constructed(Body(PolyBase,
        <<Stmt("direction_", direction),
          Stmt("set_divergence", div),
          Stmt("set_sigma_divergence", sd),
          Stmt("set_polarization_normal", pn),
          Stmt("set_polarization_fraction", pf),
          Stmt("set_flux", fl),
          Stmt("set_transmission", tr),
          Stmt("set_probe", pr),
          Stmt("set_sample_to_source_distance", Zero)>>))

\* PolychromaticBeam(direction, divergence, sigma_divergence,
\*     polarization_normal, polarization_fraction, flux, transmission, probe,
\*     sample_to_source_distance)
PolychromaticBeam_9(direction, div, sd, pn, pf, fl, tr, pr, dist) ==
    Constructed(Body(PolyBase,
        <<Stmt("direction_", direction),
          Stmt("set_divergence", div),
          Stmt("set_sigma_divergence", sd),
          Stmt("set_polarization_normal", pn),
          Stmt("set_polarization_fraction", pf),
          Stmt("set_flux", fl),
          Stmt("set_transmission", tr),
          Stmt("set_probe", pr),
          Stmt("set_sample_to_source_distance", dist)>>))

\* PolychromaticBeam without its get_wavelength override: the call reaches
\* Beam::get_wavelength.
PolychromaticBeam_get_wavelength_inherited(bm) == Ok(bm, bm.wavelength)

PolychromaticBeam_get_wavelength(bm) == Throw(bm, NoFixedWavelength)

\* PolychromaticBeam without its set_wavelength override: the call reaches
\* Beam::set_wavelength.
PolychromaticBeam_set_wavelength_inherited(bm, wavelength) ==
    Ok([bm EXCEPT !.wavelength = wavelength], NoValue)

PolychromaticBeam_set_wavelength(bm, wavelength) == Throw(bm, NoFixedWavelength)

PolychromaticBeam_get_s0(bm) == Throw(bm, NoFixedS0)

PolychromaticBeam_set_s0(bm, s0) == Throw(bm, NoFixedS0)

PolychromaticBeam_get_num_scan_points(bm) == Throw(bm, NoFixedS0)

PolychromaticBeam_set_s0_at_scan_points(bm, s0) == Throw(bm, NoFixedS0)

PolychromaticBeam_get_s0_at_scan_points(bm) == Throw(bm, NoFixedS0)

PolychromaticBeam_get_s0_at_scan_point(bm, index) == Throw(bm, NoFixedS0)

PolychromaticBeam_reset_scan_points(bm) == Throw(bm, NoFixedS0)

---------------------------------------------------------------------------
(* The virtual functions of BeamBase that PolychromaticBeam overrides,     *)
(* dispatched on the dynamic type                                          *)

IsPoly(bm) == bm.kind = "PolychromaticBeam"

get_wavelength(bm) ==
    IF IsPoly(bm) THEN PolychromaticBeam_get_wavelength(bm)
    ELSE Beam_get_wavelength(bm)

set_wavelength(bm, wavelength) ==
    IF IsPoly(bm) THEN PolychromaticBeam_set_wavelength(bm, wavelength)
    ELSE Beam_set_wavelength(bm, wavelength)

get_s0(bm) ==
    IF IsPoly(bm) THEN PolychromaticBeam_get_s0(bm) ELSE Beam_get_s0(bm)

set_s0(bm, s0) ==
    IF IsPoly(bm) THEN PolychromaticBeam_set_s0(bm, s0) ELSE Beam_set_s0(bm, s0)

get_num_scan_points(bm) ==
    IF IsPoly(bm) THEN PolychromaticBeam_get_num_scan_points(bm)
    ELSE Beam_get_num_scan_points(bm)

set_s0_at_scan_points(bm, s0) ==
    IF IsPoly(bm) THEN PolychromaticBeam_set_s0_at_scan_points(bm, s0)
    ELSE Beam_set_s0_at_scan_points(bm, s0)

get_s0_at_scan_points(bm) ==
    IF IsPoly(bm) THEN PolychromaticBeam_get_s0_at_scan_points(bm)
    ELSE Beam_get_s0_at_scan_points(bm)

get_s0_at_scan_point(bm, index) ==
    IF IsPoly(bm) THEN PolychromaticBeam_get_s0_at_scan_point(bm, index)
    ELSE Beam_get_s0_at_scan_point(bm, index)

reset_scan_points(bm) ==
    IF IsPoly(bm) THEN PolychromaticBeam_reset_scan_points(bm)
    ELSE Beam_reset_scan_points(bm)

---------------------------------------------------------------------------
(* Strict equality                                                         *)

\* double eps = 1.0e-6;
eps == Rat(1, 1000000)

\* The comparison with = in place of <=.
Within_exactly(x, y, tol) == RAbs(RSub(x, y)) = tol

\* |x - y| <= tol
Within(x, y, tol) == RLe(RAbs(RSub(x, y)), tol)

\* |angle_safe(u, v)| <= tol
AngleWithin(u, v, tol) == RLe(RAbs(angle_safe(u, v)), tol)

\* d_s0: the sum over the three axes of |this_s0[i] - other_s0[i]|.
d_s0(this_s0, other_s0) ==
    RAdd(RAdd(RAbs(RSub(this_s0[1], other_s0[1])),
              RAbs(RSub(this_s0[2], other_s0[2]))),
         RAbs(RSub(this_s0[3], other_s0[3])))

\* The for loop of Beam::operator== from index j: FALSE when it returns
\* false, TRUE when it runs to its end.
RECURSIVE Beam_eq_scan(_, _, _)
Beam_eq_scan(this, rhs, j) ==
    LET n == get_num_scan_points(this)
    IN  IF n.exc # NoExc THEN n
        ELSE IF ~(j < n.ret) THEN Ok(this, TRUE)
        ELSE LET a == get_s0_at_scan_point(this, j)
                 b == get_s0_at_scan_point(rhs, j)
             IN  IF a.exc # NoExc THEN a
                 ELSE IF b.exc # NoExc THEN Throw(this, b.exc)
                 ELSE IF RGt(d_s0(a.ret, b.ret), eps) THEN Ok(this, FALSE)
                 ELSE Beam_eq_scan(this, rhs, j + 1)

\* The static model checks of Beam::operator==, left to right; && stops at
\* the first false operand, so rhs.get_wavelength() is called only when the
\* directions agree.
Beam_eq_static(this, rhs) ==
    IF ~AngleWithin(this.direction, rhs.direction, eps) THEN Ok(this, FALSE)
    ELSE LET w == get_wavelength(rhs)
         IN  IF w.exc # NoExc THEN Throw(this, w.exc)
             ELSE Ok(this,
                     /\ Within(this.wavelength, w.ret, eps)
                     /\ Within(this.divergence, rhs.divergence, eps)
                     /\ Within(this.sigma_divergence, rhs.sigma_divergence, eps)
                     /\ AngleWithin(this.polarization_normal,
                                    rhs.polarization_normal, eps)
                     /\ Within(this.polarization_fraction,
                               rhs.polarization_fraction, eps)
                     /\ Within(this.flux, rhs.flux, eps)
                     /\ Within(this.transmission, rhs.transmission, eps)
                     /\ Within(this.sample_to_source_distance,
                               rhs.sample_to_source_distance, eps)
                     /\ this.probe = rhs.probe)

\* Beam::operator==
Beam_eq(this, rhs) ==
    LET n == get_num_scan_points(this)
    IN  IF n.exc # NoExc THEN n
        ELSE IF n.ret > 0
        THEN LET m == get_num_scan_points(rhs)
             IN  IF m.exc # NoExc THEN Throw(this, m.exc)
                 ELSE IF n.ret # m.ret THEN Ok(this, FALSE)
                 ELSE LET loop == Beam_eq_scan(this, rhs, 0)
                      IN  IF loop.exc # NoExc \/ loop.ret = FALSE THEN loop
                          ELSE Beam_eq_static(this, rhs)
        ELSE Beam_eq_static(this, rhs)

\* PolychromaticBeam::operator==
PolychromaticBeam_eq(this, rhs) ==
    Ok(this,
       /\ AngleWithin(this.direction, rhs.direction, eps)
       /\ Within(this.divergence, rhs.divergence, eps)
       /\ Within(this.sigma_divergence, rhs.sigma_divergence, eps)
       /\ AngleWithin(this.polarization_normal, rhs.polarization_normal, eps)
       /\ Within(this.polarization_fraction, rhs.polarization_fraction, eps)
       /\ Within(this.flux, rhs.flux, eps)
       /\ Within(this.transmission, rhs.transmission, eps)
       /\ Within(this.sample_to_source_distance,
                 rhs.sample_to_source_distance, eps)
       /\ this.probe = rhs.probe)

\* BeamBase::operator==, dispatched on the dynamic type of the left operand.
op_eq(this, rhs) ==
    IF IsPoly(this) THEN PolychromaticBeam_eq(this, rhs) ELSE Beam_eq(this, rhs)

\* Beam::operator!=, which PolychromaticBeam inherits: !(*this == rhs).
op_ne(this, rhs) ==
    LET r == op_eq(this, rhs)
    IN  IF r.exc # NoExc THEN r ELSE Ok(this, ~r.ret)

---------------------------------------------------------------------------
(* Similarity.  The tolerances of a call are a record t with the fields    *)
(* wavelength, direction, polarization_normal, polarization_fraction,      *)
(* divergence, sigma_divergence, flux, transmission, sample_to_source.     *)

\* The scan varying loop of both Beam::is_similar_to overloads from index
\* i: FALSE when it returns false, TRUE when it runs to its end.  A NaN
\* difference is not > the tolerance, and the loop goes on.
RECURSIVE Beam_similar_scan(_, _, _, _)
Beam_similar_scan(this, rhs, t, i) ==
    LET n == get_num_scan_points(this)
    IN  IF n.exc # NoExc THEN n
        ELSE IF ~(i < n.ret) THEN Ok(this, TRUE)
        ELSE LET a == get_s0_at_scan_point(this, i)
                 b == get_s0_at_scan_point(rhs, i)
             IN  IF a.exc # NoExc THEN a
                 ELSE IF b.exc # NoExc THEN Throw(this, b.exc)
                 ELSE IF RGt(RAbs(angle_safe(VNormalize(a.ret),
                                             VNormalize(b.ret))),
                             t.direction)
                 THEN Ok(this, FALSE)
                 ELSE IF RGt(RAbs(RSub(RDiv(One, VLength(a.ret)),
                                       RDiv(One, VLength(b.ret)))),
                             t.wavelength)
                 THEN Ok(this, FALSE)
                 ELSE Beam_similar_scan(this, rhs, t, i + 1)

\* if (get_num_scan_points() != rhs.get_num_scan_points()) return false;
\* then the loop.
Beam_similar_scan_checks(this, rhs, t) ==
    LET n == get_num_scan_points(this)
    IN  IF n.exc # NoExc THEN n
        ELSE LET m == get_num_scan_points(rhs)
             IN  IF m.exc # NoExc THEN Throw(this, m.exc)
                 ELSE IF n.ret # m.ret THEN Ok(this, FALSE)
                 ELSE Beam_similar_scan(this, rhs, t, 0)

\* Beam::is_similar_to(rhs, wavelength_tolerance, direction_tolerance,
\*     polarization_normal_tolerance, polarization_fraction_tolerance)
Beam_is_similar_to_4(this, rhs, t) ==
    LET scan == Beam_similar_scan_checks(this, rhs, t)
    IN  IF scan.exc # NoExc \/ scan.ret = FALSE THEN scan
        ELSE IF ~AngleWithin(this.direction, rhs.direction, t.direction)
        THEN Ok(this, FALSE)
        ELSE LET w == get_wavelength(rhs)
             IN  IF w.exc # NoExc THEN Throw(this, w.exc)
                 ELSE Ok(this,
                         /\ Within(this.wavelength, w.ret, t.wavelength)
                         /\ AngleWithin(this.polarization_normal,
                                        rhs.polarization_normal,
                                        t.polarization_normal)
                         /\ Within(this.polarization_fraction,
                                   rhs.polarization_fraction,
                                   t.polarization_fraction)
                         /\ this.probe = rhs.probe)

\* Beam::is_similar_to(rhs, wavelength_tolerance, direction_tolerance,
\*     polarization_normal_tolerance, polarization_fraction_tolerance,
\*     divergence_tolerance, sigma_divergence_tolerance, flux_tolerance,
\*     transmission_tolerance, sample_to_source_tolerance)
Beam_is_similar_to_9(this, rhs, t) ==
    LET scan == Beam_similar_scan_checks(this, rhs, t)
    IN  IF scan.exc # NoExc \/ scan.ret = FALSE THEN scan
        ELSE IF ~AngleWithin(this.direction, rhs.direction, t.direction)
        THEN Ok(this, FALSE)
        ELSE LET w == get_wavelength(rhs)
             IN  IF w.exc # NoExc THEN Throw(this, w.exc)
                 ELSE Ok(this,
                         /\ Within(this.wavelength, w.ret, t.wavelength)
                         /\ AngleWithin(this.polarization_normal,
                                        rhs.polarization_normal,
                                        t.polarization_normal)
                         /\ Within(this.polarization_fraction,
                                   rhs.polarization_fraction,
                                   t.polarization_fraction)
                         /\ Within(this.divergence, rhs.divergence,
                                   t.divergence)
                         /\ Within(this.sigma_divergence,
                                   rhs.sigma_divergence, t.sigma_divergence)
                         /\ Within(this.flux, rhs.flux, t.flux)
                         /\ Within(this.transmission, rhs.transmission,
                                   t.transmission)
                         /\ Within(this.sample_to_source_distance,
                                   rhs.sample_to_source_distance,
                                   t.sample_to_source))

\* PolychromaticBeam::is_similar_to(rhs, direction_tolerance,
\*     polarization_normal_tolerance, polarization_fraction_tolerance,
\*     divergence_tolerance, sigma_divergence_tolerance, flux_tolerance,
\*     transmission_tolerance, sample_to_source_tolerance)
PolychromaticBeam_is_similar_to_8(this, rhs, t) ==
    Ok(this,
       /\ AngleWithin(this.direction, rhs.direction, t.direction)
       /\ AngleWithin(this.polarization_normal, rhs.polarization_normal,
                      t.polarization_normal)
       /\ Within(this.polarization_fraction, rhs.polarization_fraction,
                 t.polarization_fraction)
       /\ Within(this.flux, rhs.flux, t.flux)
       /\ Within(this.transmission, rhs.transmission, t.transmission)
       /\ Within(this.sample_to_source_distance,
                 rhs.sample_to_source_distance, t.sample_to_source)
       /\ this.probe = rhs.probe)

\* PolychromaticBeam::is_similar_to(rhs, wavelength_tolerance,
\*     direction_tolerance, polarization_normal_tolerance,
\*     polarization_fraction_tolerance): the 8-tolerance overload with its
\* five defaults of 1e-6.
PolychromaticBeam_is_similar_to_4(this, rhs, t) ==
    PolychromaticBeam_is_similar_to_8(this, rhs,
        [t EXCEPT !.divergence = Rat(1, 1000000),
                  !.sigma_divergence = Rat(1, 1000000),
                  !.flux = Rat(1, 1000000),
                  !.transmission = Rat(1, 1000000),
                  !.sample_to_source = Rat(1, 1000000)])

\* The 4-tolerance virtual function, dispatched on the dynamic type.
is_similar_to_4(this, rhs, t) ==
    IF IsPoly(this) THEN PolychromaticBeam_is_similar_to_4(this, rhs, t)
    ELSE Beam_is_similar_to_4(this, rhs, t)

\* BeamBase::is_similar_to, the 9-tolerance pure virtual function of the
\* common interface.  Its final overrider is Beam::is_similar_to for both
\* classes: PolychromaticBeam declares no function with that signature.
is_similar_to(this, rhs, t) == Beam_is_similar_to_9(this, rhs, t)

---------------------------------------------------------------------------
(* The arguments the calls are tried with                                  *)

\* The longest axis vector tried.
MaxScale == 2

\* The longest scan-point sequence tried.
MaxScan == 1

\* Direction-like arguments: the zero vector, a vector along z that is not
\* of unit length, and one off the axes.
VecArgs == {Vec(0, 0, 0), Vec(0, 0, MaxScale), Vec(3, 4, 0)}

WavelengthArgs == {Int2R(-1), Zero, Int2R(2)}

\* A distance the code rejects and one it accepts.
DistanceArgs == {Int2R(-1), Zero}

PolarizationNormalArgs == {Vec(0, 0, 0), Vec(0, 0, 2)}

ScanVecs == {Vec(0, 0, -1), Vec(0, 0, -2)}

\* Scan-point sequences: each length up to MaxScan, filled with either
\* vector.
ScanArgs == {[i \in 1..n |-> v] : n \in 0..MaxScan, v \in ScanVecs}

IndexArgs == 0..MaxScan

RotationAxes == {Vec(0, 0, 0), Vec(0, 0, 2)}

\* Rotation angles, in quarter turns: the half turn.
RotationAngles == {2}

\* The remaining constructor arguments: the values the short constructors
\* default to, and a set of values that all differ from them.
OtherArgs ==
    {[divergence |-> Zero, sigma_divergence |-> Zero,
      polarization_normal |-> Vec(0, 1, 0),
      polarization_fraction |-> Rat(999, 1000),
      flux |-> Zero, transmission |-> One, probe |-> xray],
     [divergence |-> Rat(1, 10), sigma_divergence |-> Rat(1, 20),
      polarization_normal |-> Vec(0, 0, 2),
      polarization_fraction |-> Rat(1, 2),
      flux |-> Int2R(5), transmission |-> Rat(1, 2), probe |-> electron]}

---------------------------------------------------------------------------
(* The state: the beam the calls are made on, the beam it is compared      *)
(* with, the beam as it was before the last call, and the last call with   *)
(* its outcome.                                                            *)

Outcome(op, args, r) == [op |-> op, args |-> args, exc |-> r.exc, ret |-> r.ret]

\* The state after a constructor call.
Construct(op, args, r) ==
    /\ beam = r.beam
    /\ pre = NoBeam
    /\ other = NoBeam
    /\ last = Outcome(op, args, r)

Init ==
    \/ Construct("Beam/0", <<>>, Beam_0)
    \/ \E s0 \in VecArgs : Construct("Beam/1", <<s0>>, Beam_1(s0))
    \/ \E d \in VecArgs, w \in WavelengthArgs :
           Construct("Beam/2", <<d, w>>, Beam_2(d, w))
    \/ \E s0 \in VecArgs, o \in OtherArgs :
           Construct("Beam/3", <<s0, o.divergence, o.sigma_divergence>>,
                     Beam_3(s0, o.divergence, o.sigma_divergence))
    \/ \E d \in VecArgs, w \in WavelengthArgs, o \in OtherArgs :
           Construct("Beam/4", <<d, w, o.divergence, o.sigma_divergence>>,
                     Beam_4(d, w, o.divergence, o.sigma_divergence))
    \/ \E d \in VecArgs, w \in WavelengthArgs, o \in OtherArgs :
           Construct("Beam/9", <<d, w, o>>,
                     Beam_9(d, w, o.divergence, o.sigma_divergence,
                            o.polarization_normal, o.polarization_fraction,
                            o.flux, o.transmission, o.probe))
    \/ \E d \in VecArgs, w \in WavelengthArgs, o \in OtherArgs,
          dist \in DistanceArgs :
           Construct("Beam/10", <<d, w, o, dist>>,
                     Beam_10(d, w, o.divergence, o.sigma_divergence,
                             o.polarization_normal, o.polarization_fraction,
                             o.flux, o.transmission, o.probe, dist))
    \/ Construct("PolychromaticBeam/0", <<>>, PolychromaticBeam_0)
    \/ \E d \in VecArgs :
           Construct("PolychromaticBeam/1", <<d>>, PolychromaticBeam_1(d))
    \/ \E d \in VecArgs, dist \in DistanceArgs :
           Construct("PolychromaticBeam/2", <<d, dist>>,
                     PolychromaticBeam_2(d, dist))
    \/ \E d \in VecArgs, o \in OtherArgs :
           Construct("PolychromaticBeam/3",
                     <<d, o.divergence, o.sigma_divergence>>,
                     PolychromaticBeam_3(d, o.divergence, o.sigma_divergence))
    \/ \E d \in VecArgs, o \in OtherArgs :
           Construct("PolychromaticBeam/8", <<d, o>>,
                     PolychromaticBeam_8(d, o.divergence, o.sigma_divergence,
                         o.polarization_normal, o.polarization_fraction,
                         o.flux, o.transmission, o.probe))
    \/ \E d \in VecArgs, o \in OtherArgs, dist \in DistanceArgs :
           Construct("PolychromaticBeam/9", <<d, o, dist>>,
                     PolychromaticBeam_9(d, o.divergence, o.sigma_divergence,
                         o.polarization_normal, o.polarization_fraction,
                         o.flux, o.transmission, o.probe, dist))

\* A call on the beam: there is a beam, and the call's outcome is recorded.
Call(op, args, r) ==
    /\ pre' = beam
    /\ beam' = r.beam
    /\ last' = Outcome(op, args, r)
    /\ UNCHANGED other

Exists == beam.kind # "none"

Call_get_sample_to_source_direction ==
    /\ Exists
    /\ Call("get_sample_to_source_direction", <<>>,
            get_sample_to_source_direction(beam))

Call_get_wavelength ==
    /\ Exists
    /\ Call("get_wavelength", <<>>, get_wavelength(beam))

Call_set_direction ==
    /\ Exists
    /\ \E v \in VecArgs : Call("set_direction", <<v>>, set_direction(beam, v))

Call_set_wavelength ==
    /\ Exists
    /\ \E w \in WavelengthArgs :
           Call("set_wavelength", <<w>>, set_wavelength(beam, w))

Call_get_s0 ==
    /\ Exists
    /\ Call("get_s0", <<>>, get_s0(beam))

Call_set_s0 ==
    /\ Exists
    /\ \E v \in VecArgs : Call("set_s0", <<v>>, set_s0(beam, v))

Call_set_unit_s0 ==
    /\ Exists
    /\ \E v \in VecArgs : Call("set_unit_s0", <<v>>, set_unit_s0(beam, v))

Call_set_polarization_normal ==
    /\ Exists
    /\ \E v \in PolarizationNormalArgs :
           Call("set_polarization_normal", <<v>>,
                set_polarization_normal(beam, v))

Call_get_num_scan_points ==
    /\ Exists
    /\ Call("get_num_scan_points", <<>>, get_num_scan_points(beam))

Call_set_s0_at_scan_points ==
    /\ Exists
    /\ \E s \in ScanArgs :
           Call("set_s0_at_scan_points", <<s>>, set_s0_at_scan_points(beam, s))

Call_get_s0_at_scan_points ==
    /\ Exists
    /\ Call("get_s0_at_scan_points", <<>>, get_s0_at_scan_points(beam))

Call_get_s0_at_scan_point ==
    /\ Exists
    /\ \E i \in IndexArgs :
           Call("get_s0_at_scan_point", <<i>>, get_s0_at_scan_point(beam, i))

Call_reset_scan_points ==
    /\ Exists
    /\ Call("reset_scan_points", <<>>, reset_scan_points(beam))

Call_get_sample_to_source_distance ==
    /\ Exists
    /\ Call("get_sample_to_source_distance", <<>>,
            get_sample_to_source_distance(beam))

Call_set_sample_to_source_distance ==
    /\ Exists
    /\ \E d \in DistanceArgs :
           Call("set_sample_to_source_distance", <<d>>,
                set_sample_to_source_distance(beam, d))

Call_rotate_around_origin ==
    /\ Exists
    /\ \E axis \in RotationAxes, q \in RotationAngles :
           Call("rotate_around_origin", <<axis, q>>,
                rotate_around_origin(beam, axis, q))

Next ==
    \/ Call_get_sample_to_source_direction
    \/ Call_get_wavelength
    \/ Call_set_direction
    \/ Call_set_wavelength
    \/ Call_get_s0
    \/ Call_set_s0
    \/ Call_set_unit_s0
    \/ Call_set_polarization_normal
    \/ Call_get_num_scan_points
    \/ Call_set_s0_at_scan_points
    \/ Call_get_s0_at_scan_points
    \/ Call_get_s0_at_scan_point
    \/ Call_reset_scan_points
    \/ Call_get_sample_to_source_distance
    \/ Call_set_sample_to_source_distance
    \/ Call_rotate_around_origin

Spec == Init /\ [][Next]_vars

---------------------------------------------------------------------------
(* Comparisons: two beams, each a default-constructed beam of either class *)
(* after at most one setter call, and the comparison calls made on the     *)
(* first with the second as rhs.                                           *)

\* The setter calls that tell two beams apart, by number; a call that throws
\* leaves the beam as it was.
Changed(bm, k) ==
    CASE k = 0 -> bm
      [] k = 1 -> set_direction(bm, Vec(3, 4, 0)).beam
      [] k = 2 -> set_wavelength(bm, Int2R(2)).beam
      [] k = 3 -> set_divergence(bm, One).beam
      [] k = 4 -> set_sigma_divergence(bm, One).beam
      [] k = 5 -> set_polarization_normal(bm, Vec(0, 0, 2)).beam
      [] k = 6 -> set_polarization_fraction(bm, Rat(1, 2)).beam
      [] k = 7 -> set_flux(bm, Int2R(2)).beam
      [] k = 8 -> set_transmission(bm, Rat(1, 2)).beam
      [] k = 9 -> set_probe(bm, electron).beam
      [] k = 10 -> set_sample_to_source_distance(bm, One).beam
      [] k = 11 -> set_s0_at_scan_points(bm, <<Vec(0, 0, -1)>>).beam
      [] k = 12 -> set_s0_at_scan_points(bm, <<Vec(0, 0, -1), Vec(0, 0, -1)>>).beam
      [] k = 13 -> set_s0_at_scan_points(bm, <<Vec(0, 0, -2)>>).beam
      [] k = 14 -> set_s0_at_scan_points(bm, <<Vec(0, 0, 0)>>).beam
      [] k = 15 -> set_polarization_normal(bm, Vec(0, 0, 0)).beam
      [] k = 16 -> set_flux(bm, Rat(1, 2000000)).beam
      [] k = 17 -> set_s0_at_scan_points(bm, <<Vec(3, 4, 0)>>).beam

Changes == 0..17

CmpBeams ==
    {Changed(b, k) : b \in {Beam_0.beam, PolychromaticBeam_0.beam},
                     k \in Changes}

\* Tolerances: 0, the default 1e-6, and one wider than any difference tried.
Tight == Zero

Loose == Int2R(4)

ToleranceNames ==
    {"wavelength", "direction", "polarization_normal",
     "polarization_fraction", "divergence", "sigma_divergence", "flux",
     "transmission", "sample_to_source"}

\* The tolerance tuples tried: all equal; all loose but one; all tight but
\* one.
ToleranceArgs ==
    {[f \in ToleranceNames |-> v] : v \in {Tight, Rat(1, 1000000), Loose}}
    \cup {[f \in ToleranceNames |-> IF f = g THEN Tight ELSE Loose] :
              g \in ToleranceNames}
    \cup {[f \in ToleranceNames |-> IF f = g THEN Loose ELSE Tight] :
              g \in ToleranceNames}

InitCmp ==
    /\ beam \in CmpBeams
    /\ other \in CmpBeams
    /\ pre = beam
    /\ last = [op |-> "none", args |-> <<>>, exc |-> NoExc, ret |-> NoValue]

\* One comparison is made on each pair of beams drawn.
NotCompared == last.op = "none"

Call_op_eq ==
    /\ NotCompared
    /\ Call("operator==", <<>>, op_eq(beam, other))

Call_op_ne ==
    /\ NotCompared
    /\ Call("operator!=", <<>>, op_ne(beam, other))

\* The 4-tolerance overload, through a Beam reference.
Call_is_similar_to_4 ==
    /\ NotCompared
    /\ \E t \in ToleranceArgs :
           Call("is_similar_to/4", <<t>>, is_similar_to_4(beam, other, t))

\* The 9-tolerance function of BeamBase, through the common interface.
Call_is_similar_to ==
    /\ NotCompared
    /\ \E t \in ToleranceArgs :
           Call("is_similar_to/9", <<t>>, is_similar_to(beam, other, t))

\* The 8-tolerance overload, on an object whose static type is
\* PolychromaticBeam.
Call_PolychromaticBeam_is_similar_to_8 ==
    /\ NotCompared
    /\ IsPoly(beam)
    /\ \E t \in ToleranceArgs :
           Call("PolychromaticBeam::is_similar_to/8", <<t>>,
                PolychromaticBeam_is_similar_to_8(beam, other, t))

NextCmp ==
    \/ Call_op_eq
    \/ Call_op_ne
    \/ Call_is_similar_to_4
    \/ Call_is_similar_to
    \/ Call_PolychromaticBeam_is_similar_to_8

SpecCmp == InitCmp /\ [][NextCmp]_vars

---------------------------------------------------------------------------
(* Properties of the calls on one beam (Spec)                              *)

\* The last call was op, made on a beam (not a constructor call).
Called(op) == last.op = op /\ pre.kind # "none"

Succeeded == last.exc = NoExc

Arg(i) == last.args[i]

IsUnit(v) == VLength(v) = One

IsZeroVec(v) == VLength(v) = Zero

\* The operations a polychromatic beam does not support.
UnsupportedOps ==
    {"get_wavelength", "set_wavelength", "get_s0", "set_s0",
     "get_num_scan_points", "set_s0_at_scan_points",
     "get_s0_at_scan_points", "get_s0_at_scan_point", "reset_scan_points"}

\* C1: on a polychromatic beam, each of get_wavelength, set_wavelength,
\* get_s0, set_s0, get_num_scan_points, set_s0_at_scan_points,
\* get_s0_at_scan_points, get_s0_at_scan_point and reset_scan_points throws
\* the unsupported-operation error, whatever its arguments, and leaves every
\* field of the beam as it was.
C1_PolyUnsupported ==
    (pre.kind # "none" /\ IsPoly(pre) /\ last.op \in UnsupportedOps)
        => /\ last.exc \in {NoFixedWavelength, NoFixedS0}
           /\ beam = pre

\* C1, its case: set_wavelength with a usable wavelength was called on a
\* polychromatic beam with non-default fields, and threw.
C1_Witness ==
    /\ Called("set_wavelength")
    /\ IsPoly(pre)
    /\ Arg(1) = Int2R(2)
    /\ pre.flux = Int2R(5)
    /\ last.exc = NoFixedWavelength

\* C2 as stated: in every reachable state of a beam of either variant,
\* whatever constructors, set_direction, set_s0, set_unit_s0 and
\* rotate_around_origin calls came before, get_sample_to_source_direction
\* returns a vector of length 1.
C2_DirectionUnit ==
    Exists => IsUnit(get_sample_to_source_direction(beam).ret)

\* C3 as stated: a monochromatic beam's wavelength is strictly positive in
\* every reachable state.
C3_WavelengthPositive ==
    (Exists /\ ~IsPoly(beam)) => RGt(get_wavelength(beam).ret, Zero)

\* The constructors that take s0, and those that take a wavelength (as
\* their second argument).
S0Constructors == {"Beam/1", "Beam/3"}

WavelengthConstructors == {"Beam/2", "Beam/4", "Beam/9", "Beam/10"}

\* C3, amended: a monochromatic beam's wavelength is strictly positive, and
\* equal to 1/|s0|, right after a successful set_s0 or s0-taking
\* constructor; it is 0 after the default constructor, and after a
\* successful set_wavelength or wavelength-taking constructor it is the
\* value given, positive or not.
C3_WavelengthAsGiven ==
    (Exists /\ ~IsPoly(beam) /\ Succeeded) =>
        /\ (last.op \in S0Constructors \/ Called("set_s0"))
               => /\ RGt(beam.wavelength, Zero)
                  /\ beam.wavelength = RDiv(One, VLength(Arg(1)))
        /\ last.op = "Beam/0" => beam.wavelength = Zero
        /\ last.op \in WavelengthConstructors => beam.wavelength = Arg(2)
        /\ Called("set_wavelength") => beam.wavelength = Arg(1)

\* C3, its case: set_s0 succeeded on a beam whose wavelength was not
\* positive, and the wavelength is positive now.
C3_Witness ==
    /\ Called("set_s0")
    /\ Succeeded
    /\ ~RGt(pre.wavelength, Zero)
    /\ RGt(beam.wavelength, Zero)

\* The constructors that take a sample-to-source distance (as their last
\* argument).
DistanceConstructors ==
    {"Beam/10", "PolychromaticBeam/2", "PolychromaticBeam/9"}

\* C4 as stated: the sample-to-source distance is >= 0 in every reachable
\* state of either variant; set_sample_to_source_distance and every
\* constructor that takes a distance reject a negative value with
\* invalid-argument.
C4_DistanceNonNegative ==
    /\ Exists => RLe(Zero, get_sample_to_source_distance(beam).ret)
    /\ (Called("set_sample_to_source_distance") /\ RLt(Arg(1), Zero))
           => last.exc = AssertFailed /\ beam = pre
    /\ (last.op \in DistanceConstructors /\ RLt(Arg(Len(last.args)), Zero))
           => last.exc = AssertFailed /\ ~Exists

\* The setters of a direction-like vector, and the unit form each would
\* store.
DirectionSetters ==
    {"set_direction", "set_s0", "set_unit_s0", "set_polarization_normal"}

UnitForm(op, v) ==
    IF op \in {"set_s0", "set_unit_s0"} THEN VNeg(VNormalize(v))
    ELSE VNormalize(v)

Stored(op) ==
    IF op = "set_polarization_normal" THEN beam.polarization_normal
    ELSE beam.direction

\* C5 as stated: every setter that takes a direction-like vector
\* (set_direction, set_s0, set_unit_s0, set_polarization_normal) fails with
\* invalid-argument when given a zero-length vector, and otherwise stores
\* the unit-length form of the argument.
C5_EverySetterChecks ==
    (pre.kind # "none" /\ last.op \in DirectionSetters) =>
        IF IsZeroVec(Arg(1))
        THEN last.exc = AssertFailed /\ beam = pre
        ELSE /\ Succeeded
             /\ Stored(last.op) = UnitForm(last.op, Arg(1))
             /\ IsUnit(Stored(last.op))

\* C5, amended: set_direction and set_unit_s0 on either variant, and set_s0
\* on a monochromatic beam, fail with invalid-argument and change nothing
\* when given a zero-length vector, and otherwise store the unit-length form
\* of the argument (negated by the s0 setters); set_s0 on a polychromatic
\* beam fails with unsupported-operation whatever the vector;
\* set_polarization_normal checks nothing and stores its argument as given,
\* the zero vector included.
C5_DirectionSettersCheck ==
    /\ (pre.kind # "none"
            /\ (last.op \in {"set_direction", "set_unit_s0"}
                   \/ (last.op = "set_s0" /\ ~IsPoly(pre)))) =>
           IF IsZeroVec(Arg(1))
           THEN last.exc = AssertFailed /\ beam = pre
           ELSE /\ Succeeded
                /\ beam.direction = UnitForm(last.op, Arg(1))
                /\ IsUnit(beam.direction)
    /\ (Called("set_s0") /\ IsPoly(pre)) =>
           last.exc = NoFixedS0 /\ beam = pre
    /\ Called("set_polarization_normal") =>
           /\ Succeeded
           /\ beam = [pre EXCEPT !.polarization_normal = Arg(1)]

\* C5, its case: set_direction was given (3, 4, 0) and stored (3/5, 4/5, 0).
C5_Witness ==
    /\ Called("set_direction")
    /\ Arg(1) = Vec(3, 4, 0)
    /\ Succeeded
    /\ beam.direction = <<Rat(3, 5), Rat(4, 5), Zero>>
    /\ pre.direction # beam.direction

\* C6: after set_s0(v) with a non-zero v on a monochromatic beam, the stored
\* direction is -v/|v|, the stored wavelength is 1/|v|, and a following
\* get_s0 succeeds and returns v.
C6_S0RoundTrip ==
    (Called("set_s0") /\ ~IsPoly(pre) /\ ~IsZeroVec(Arg(1))) =>
        /\ Succeeded
        /\ beam.direction = VNeg(VNormalize(Arg(1)))
        /\ beam.wavelength = RDiv(One, VLength(Arg(1)))
        /\ get_s0(beam) = Ok(beam, Arg(1))

\* C6, its case: set_s0((3, 4, 0)) succeeded on a beam whose wavelength was
\* 0, where get_s0 would have failed before the call.
C6_Witness ==
    /\ Called("set_s0")
    /\ Succeeded
    /\ Arg(1) = Vec(3, 4, 0)
    /\ pre.wavelength = Zero
    /\ get_s0(pre).exc = AssertFailed
    /\ get_s0(beam).ret = Vec(3, 4, 0)

\* C7: on a monochromatic beam, set_unit_s0(u) with a non-zero u sets the
\* direction to -u/|u| and changes nothing else: the wavelength and every
\* other field are as they were.
C7_SetUnitS0Frame ==
    (Called("set_unit_s0") /\ ~IsPoly(pre) /\ ~IsZeroVec(Arg(1))) =>
        /\ Succeeded
        /\ beam = [pre EXCEPT !.direction = VNeg(VNormalize(Arg(1)))]
        /\ beam.wavelength = pre.wavelength

\* C7, its case: set_unit_s0 with a vector of length 5 turned a beam of
\* wavelength 2 with scan points, and the wavelength is still 2.
C7_Witness ==
    /\ Called("set_unit_s0")
    /\ ~IsPoly(pre)
    /\ Succeeded
    /\ Arg(1) = Vec(3, 4, 0)
    /\ pre.wavelength = Int2R(2)
    /\ pre.s0_at_scan_points # <<>>
    /\ beam.direction # pre.direction
    /\ beam.wavelength = Int2R(2)

---------------------------------------------------------------------------
(* Properties of the comparisons (SpecCmp)                                 *)

BothMono == ~IsPoly(beam) /\ ~IsPoly(other)

BothPoly == IsPoly(beam) /\ IsPoly(other)

ScanCount(bm) == Len(bm.s0_at_scan_points)

\* C8 as stated: when either of two monochromatic beams has scan points and
\* the two scan-point counts differ, operator== and both is_similar_to
\* overloads return false, whichever beam is the left operand.
C8_ScanCountMismatch ==
    (last.op \in {"operator==", "is_similar_to/4", "is_similar_to/9"}
        /\ BothMono
        /\ (ScanCount(beam) > 0 \/ ScanCount(other) > 0)
        /\ ScanCount(beam) # ScanCount(other))
        => Succeeded /\ last.ret = FALSE

\* C9 as stated: the extended (nine-tolerance) is_similar_to of a
\* monochromatic beam applies every check of the core (four-tolerance)
\* overload, the probe equality included: it is false when the probes
\* differ, and true only if the core overload with the same four tolerances
\* is true.
C9_ExtendedAppliesCore ==
    (last.op = "is_similar_to/9" /\ BothMono) =>
        /\ Succeeded
        /\ beam.probe # other.probe => last.ret = FALSE
        /\ last.ret = TRUE
               => Beam_is_similar_to_4(beam, other, Arg(1)) = Ok(beam, TRUE)

\* The comparison spec.md gives for two polychromatic beams: every
\* supported field within its tolerance, and the probes equal.
PolySupportedFieldsWithin(this, rhs, t) ==
    /\ AngleWithin(this.direction, rhs.direction, t.direction)
    /\ Within(this.divergence, rhs.divergence, t.divergence)
    /\ Within(this.sigma_divergence, rhs.sigma_divergence, t.sigma_divergence)
    /\ AngleWithin(this.polarization_normal, rhs.polarization_normal,
                   t.polarization_normal)
    /\ Within(this.polarization_fraction, rhs.polarization_fraction,
              t.polarization_fraction)
    /\ Within(this.flux, rhs.flux, t.flux)
    /\ Within(this.transmission, rhs.transmission, t.transmission)
    /\ Within(this.sample_to_source_distance, rhs.sample_to_source_distance,
              t.sample_to_source)
    /\ this.probe = rhs.probe

\* C10 as stated: for two polychromatic beams is_similar_to is true exactly
\* when direction, divergence, sigma-divergence, polarization normal,
\* polarization fraction, flux, transmission and sample-to-source distance
\* are each within their tolerance and the probes are equal; and no
\* is_similar_to overload reached through the common interface raises the
\* unsupported-operation error.
C10_PolySimilarity ==
    /\ (last.op = "PolychromaticBeam::is_similar_to/8" /\ BothPoly) =>
           /\ Succeeded
           /\ last.ret = PolySupportedFieldsWithin(beam, other, Arg(1))
    /\ (last.op \in {"is_similar_to/4", "is_similar_to/9"} /\ BothPoly) =>
           last.exc \notin {NoFixedWavelength, NoFixedS0}

\* The is_similar_to overload the last call was made on, with the
\* tolerances t in place of the call's.
SimilarWith(t) ==
    CASE last.op = "is_similar_to/4" -> is_similar_to_4(beam, other, t)
      [] last.op = "is_similar_to/9" -> is_similar_to(beam, other, t)
      [] last.op = "PolychromaticBeam::is_similar_to/8" ->
             PolychromaticBeam_is_similar_to_8(beam, other, t)

SimilarityOps ==
    {"is_similar_to/4", "is_similar_to/9",
     "PolychromaticBeam::is_similar_to/8"}

\* t <= u, component-wise.
ToleranceLe(t, u) == \A f \in ToleranceNames : RLe(t[f], u[f])

\* C11: similarity is monotonic in tolerance: when a.is_similar_to(b, t)
\* returns true on any overload, with non-negative tolerances t, it returns
\* true with every tolerance tuple that is component-wise at least t; in
\* particular true at all tolerances 0 gives true at the 1e-6 defaults.
C11_MonotonicInTolerance ==
    (last.op \in SimilarityOps /\ Succeeded /\ last.ret = TRUE) =>
        \A u \in ToleranceArgs :
            ToleranceLe(Arg(1), u) => SimilarWith(u) = Ok(beam, TRUE)

\* C11, its case: two beams that differ (in flux, by less than 1e-6) are
\* similar at the 1e-6 tolerances, are not at the tolerances 0, and a wider
\* tolerance tuple was tried.
C11_Witness ==
    /\ last.op = "is_similar_to/9"
    /\ Succeeded
    /\ last.ret = TRUE
    /\ beam.flux # other.flux
    /\ Arg(1) = [f \in ToleranceNames |-> Rat(1, 1000000)]
    /\ SimilarWith([f \in ToleranceNames |-> Tight]) = Ok(beam, FALSE)
    /\ \E u \in ToleranceArgs : u # Arg(1) /\ ToleranceLe(Arg(1), u)

\* C12 as stated: strict equality is reflexive: for a beam b of either
\* variant, as the constructors and setters leave it (default-constructed,
\* with scan points, or with its polarization normal set to any vector the
\* setter accepts), b == b returns true.
C12_EqualityReflexive ==
    (last.op = "operator==" /\ other = beam) => Succeeded /\ last.ret = TRUE

---------------------------------------------------------------------------
(* Properties of the calls on one beam (Spec), continued                   *)

\* A half turn about the z axis, written out: (x, y, z) to (-x, -y, z).
HalfTurnAboutZ(v) == <<RNeg(v[1]), RNeg(v[2]), v[3]>>

\* C13: rotate_around_origin(axis, angle) changes only the direction and
\* the polarization normal, and applies the same rotation to both;
\* wavelength, divergence, sigma-divergence, polarization fraction, flux,
\* transmission, probe, sample-to-source distance and the stored scan-point
\* wave vectors are the same before and after the call.
C13_RotationFrame ==
    Called("rotate_around_origin") =>
        /\ Succeeded
        /\ beam.direction = VRotate(pre.direction, Arg(1), Arg(2))
        /\ beam.polarization_normal =
               VRotate(pre.polarization_normal, Arg(1), Arg(2))
        /\ (Arg(1) = Vec(0, 0, 2) /\ Arg(2) = 2) =>
               /\ beam.direction = HalfTurnAboutZ(pre.direction)
               /\ beam.polarization_normal =
                      HalfTurnAboutZ(pre.polarization_normal)
        /\ beam.kind = pre.kind
        /\ beam.wavelength = pre.wavelength
        /\ beam.divergence = pre.divergence
        /\ beam.sigma_divergence = pre.sigma_divergence
        /\ beam.polarization_fraction = pre.polarization_fraction
        /\ beam.flux = pre.flux
        /\ beam.transmission = pre.transmission
        /\ beam.probe = pre.probe
        /\ beam.sample_to_source_distance = pre.sample_to_source_distance
        /\ beam.s0_at_scan_points = pre.s0_at_scan_points

\* C13, its case: a half turn about z turned the direction (3/5, 4/5, 0) and
\* the polarization normal (0, 1, 0) of a beam with wavelength 2 and scan
\* points.
C13_Witness ==
    /\ Called("rotate_around_origin")
    /\ Arg(1) = Vec(0, 0, 2)
    /\ pre.direction = <<Rat(3, 5), Rat(4, 5), Zero>>
    /\ beam.direction = <<Rat(-3, 5), Rat(-4, 5), Zero>>
    /\ pre.polarization_normal = Vec(0, 1, 0)
    /\ beam.polarization_normal = Vec(0, -1, 0)
    /\ pre.wavelength = Int2R(2)
    /\ pre.s0_at_scan_points # <<>>

Constructors == {"Beam/0", "Beam/1", "Beam/2", "Beam/3", "Beam/4", "Beam/9",
                 "Beam/10"}

\* C14: on a monochromatic beam the stored scan-point sequence is exactly
\* the argument of the most recent set_s0_at_scan_points, or empty when the
\* most recent of these calls was reset_scan_points or none was made: the
\* sequence is empty after construction, is the argument after a set, is
\* empty after a reset, and is left alone by every other call;
\* get_num_scan_points returns its length, and get_s0_at_scan_point(i)
\* returns its i-th element for i < count and fails for every i >= count.
C14_ScanPoints ==
    (Exists /\ ~IsPoly(beam)) =>
        /\ last.op \in Constructors => beam.s0_at_scan_points = <<>>
        /\ Called("set_s0_at_scan_points") =>
               /\ Succeeded
               /\ beam = [pre EXCEPT !.s0_at_scan_points = Arg(1)]
        /\ Called("reset_scan_points") =>
               /\ Succeeded
               /\ beam = [pre EXCEPT !.s0_at_scan_points = <<>>]
        /\ (pre.kind # "none"
                /\ last.op \notin {"set_s0_at_scan_points",
                                   "reset_scan_points"}) =>
               beam.s0_at_scan_points = pre.s0_at_scan_points
        /\ Called("get_num_scan_points") =>
               /\ Succeeded
               /\ last.ret = Len(beam.s0_at_scan_points)
        /\ Called("get_s0_at_scan_points") =>
               /\ Succeeded
               /\ last.ret = beam.s0_at_scan_points
        /\ Called("get_s0_at_scan_point") =>
               IF Arg(1) < Len(beam.s0_at_scan_points)
               THEN /\ Succeeded
                    /\ last.ret = beam.s0_at_scan_points[Arg(1) + 1]
               ELSE last.exc = AssertFailed /\ beam = pre

\* C14, its case: set_s0_at_scan_points replaced a stored sequence by one
\* with another element, and nothing of the earlier sequence is left.
C14_Witness ==
    /\ Called("set_s0_at_scan_points")
    /\ ~IsPoly(pre)
    /\ pre.s0_at_scan_points = <<Vec(0, 0, -1)>>
    /\ Arg(1) = <<Vec(0, 0, -2)>>
    /\ beam.s0_at_scan_points = <<Vec(0, 0, -2)>>
    /\ get_s0_at_scan_point(beam, 0) = Ok(beam, Vec(0, 0, -2))
    /\ get_s0_at_scan_point(beam, 1).exc = AssertFailed

\* The last call was one whose check fails: a zero-length vector given to
\* set_direction, set_s0 or set_unit_s0, a negative distance given to
\* set_sample_to_source_distance, get_s0 on a monochromatic beam of
\* wavelength 0, or get_s0_at_scan_point on a monochromatic beam with an
\* index that is not below the count.
CheckFails ==
    /\ pre.kind # "none"
    /\ \/ last.op \in {"set_direction", "set_s0", "set_unit_s0"}
              /\ IsZeroVec(Arg(1))
       \/ last.op = "set_sample_to_source_distance" /\ RLt(Arg(1), Zero)
       \/ last.op = "get_s0" /\ ~IsPoly(pre) /\ pre.wavelength = Zero
       \/ last.op = "get_s0_at_scan_point" /\ ~IsPoly(pre)
              /\ ~(Arg(1) < Len(pre.s0_at_scan_points))

\* C15: no operation mutates the beam before its check fails: a call whose
\* check fails raises (invalid-argument on a monochromatic beam), and every
\* field of the beam is the same as before the call.
C15_NoMutationBeforeFailure ==
    CheckFails =>
        /\ last.exc # NoExc
        /\ ~IsPoly(pre) => last.exc = AssertFailed
        /\ beam = pre

\* C15, its case: set_s0 was given the zero vector on a beam with a set
\* direction, wavelength 2 and scan points; it raised.
C15_Witness ==
    /\ Called("set_s0")
    /\ IsZeroVec(Arg(1))
    /\ ~IsPoly(pre)
    /\ pre.direction = <<Rat(3, 5), Rat(4, 5), Zero>>
    /\ pre.wavelength = Int2R(2)
    /\ pre.s0_at_scan_points # <<>>
    /\ last.exc = AssertFailed

---------------------------------------------------------------------------
(* Properties of the comparisons (SpecCmp), continued                      *)

\* Every tolerance at the eps of operator==.
AllEps == [f \in ToleranceNames |-> eps]

\* C16: strict equality of a polychromatic beam p and a monochromatic beam
\* a depends on the operand order.  p == a never raises and is the
\* comparison of the common fields (direction, divergence, sigma-divergence,
\* polarization normal and fraction, flux, transmission, distance, probe).
\* a == p raises the unsupported-operation error when a has a scan point or
\* a's direction is within 1e-6 rad of p's, and returns false otherwise: it
\* never returns true.
C16_MixedEquality ==
    /\ (last.op = "operator==" /\ IsPoly(beam) /\ ~IsPoly(other)) =>
           /\ Succeeded
           /\ last.ret = PolySupportedFieldsWithin(beam, other, AllEps)
    /\ (last.op = "operator==" /\ ~IsPoly(beam) /\ IsPoly(other)) =>
           IF ScanCount(beam) > 0
           THEN last.exc = NoFixedS0
           ELSE IF AngleWithin(beam.direction, other.direction, eps)
           THEN last.exc = NoFixedWavelength
           ELSE Succeeded /\ last.ret = FALSE

\* C16, its case: a == p raised for a monochromatic a without scan points
\* whose fields are those of the polychromatic p, where p == a is true.
C16_Witness ==
    /\ last.op = "operator=="
    /\ ~IsPoly(beam)
    /\ IsPoly(other)
    /\ ScanCount(beam) = 0
    /\ beam.direction = other.direction
    /\ last.exc = NoFixedWavelength
    /\ op_eq(other, beam) = Ok(other, TRUE)


=============================================================================
